---- MODULE Spec2Model ----
(***************************************************************************)
(* The lock-free stack of src/src/lib.rs (Stack<T>, Node<T>) as a state    *)
(* machine.  Every load, store and compare_exchange of push and pop is one *)
(* atomic step of the calling thread; threads interleave between steps.    *)
(* Atomic operations are modelled at this interleaving granularity (the    *)
(* Acquire/Relaxed annotations are not distinguished).                     *)
(*                                                                         *)
(* The flize Collector is outside the repository; it is modelled by its    *)
(* contract: a retirement callback runs once, after every shield that was  *)
(* held when the node was retired has been released.                       *)
(***************************************************************************)
EXTENDS Integers, Sequences, FiniteSets, Bags, TLC

\* ---- bounds -----------------------------------------------------------
NumThreads == 2
MaxCalls == 4
NumValues == 2
SeqCalls == 6
FairCalls == 2

Threads == 1..NumThreads
Values == 1..NumValues
\* every push call allocates one node, so the largest call limit bounds the nodes
MaxNodes == IF MaxCalls > SeqCalls THEN MaxCalls ELSE SeqCalls
Nodes == 1..MaxNodes

\* Shared::null(): the null pointer.  Option::None as a pop result.
Null == 0
NoneRes == 0

VARIABLES
    head,      \* Stack.head: a node or Null
    data,      \* Node.data of every node
    next,      \* Node.next of every node
    nalloc,    \* number of nodes allocated so far (Box::new)
    pc,        \* program point of every thread
    n,         \* push: local n
    h,         \* push/pop: local head (the snapshot)
    nx,        \* pop: local next
    shield,    \* thread holds a thin_shield (local guard is alive)
    cur,       \* index in calls of the call the thread is running
    casOk,     \* successful compare_exchange calls of the thread's current call
    casFail,   \* failed compare_exchange calls of the thread's current call
    calls,     \* history: one record per push/pop call, in invocation order
    abs,       \* history: the reference stack, updated at every successful CAS
    interf,    \* history: another thread's CAS succeeded since the thread's load
    retired,   \* closures handed to guard.retire, not yet run
    ran,       \* retirements whose closure the collector has run
    freed,     \* nodes whose memory has been deallocated
    fault      \* "none", or what became of a store through a null n (line 70):
               \* "killed" (the process got a fault and is gone) or "ignored"

vars == <<head, data, next, nalloc, pc, n, h, nx, shield, cur, casOk, casFail,
          calls, abs, interf, retired, ran, freed, fault>>

\* ---- helpers ----------------------------------------------------------
\* Atomic::compare_exchange(current, new): succeeds iff the cell holds
\* current; Ok carries the previous value, Err the value actually found.
\* mutant: the exchange fails although the cell holds current
CompareExchangeSpurious(cell, current, new) ==
    [ok |-> FALSE, cell |-> cell, val |-> cell]

CompareExchange(cell, current, new) ==
    IF cell = current
    THEN [ok |-> TRUE, cell |-> new, val |-> cell]
    ELSE [ok |-> FALSE, cell |-> cell, val |-> cell]

\* line 79: Err(owned) => n = owned.  The Err payload of compare_exchange is
\* the pointer found in head, and it is what n becomes.
RetryNode(old, owned) == owned

\* line 46: the closure is move || drop(head), head being a Shared pointer.
\* Dropping a Shared does not touch the node it points to.
DropShared(f, node) == f

\* the process has not been killed
Alive == fault # "killed"

\* no store through a null pointer has happened
NoFault == fault = "none"

\* the calls whose shield is held right now
ActiveShields == {cur[t] : t \in {u \in Threads : shield[u]}}

Done(t, res) ==
    calls' = [calls EXCEPT ![cur[t]].done = TRUE, ![cur[t]].res = res]

\* history: a CAS of thread t succeeded
Interfere(t) == interf' = [u \in Threads |-> IF u = t THEN interf[u] ELSE TRUE]

\* history: thread t takes a new snapshot of head
Snapshot(t) == interf' = [interf EXCEPT ![t] = FALSE]

Invoke(t, op, arg, node) ==
    calls' = Append(calls,
        [t |-> t, op |-> op, arg |-> arg, res |-> NoneRes, done |-> FALSE,
         node |-> node,
         pred |-> {i \in 1..Len(calls) : calls[i].done}])

\* ---- Stack::new ---------------------------------------------------------
Init ==
    /\ head = Null
    /\ data = [m \in Nodes |-> 0]
    /\ next = [m \in Nodes |-> Null]
    /\ nalloc = 0
    /\ pc = [t \in Threads |-> "idle"]
    /\ n = [t \in Threads |-> Null]
    /\ h = [t \in Threads |-> Null]
    /\ nx = [t \in Threads |-> Null]
    /\ shield = [t \in Threads |-> FALSE]
    /\ cur = [t \in Threads |-> 0]
    /\ casOk = [t \in Threads |-> 0]
    /\ casFail = [t \in Threads |-> 0]
    /\ calls = <<>>
    /\ abs = <<>>
    /\ interf = [t \in Threads |-> FALSE]
    /\ retired = {}
    /\ ran = {}
    /\ freed = {}
    /\ fault = "none"

\* The locals n, head and next of a call are reset to Null when it returns.

\* ---- Stack::push --------------------------------------------------------
\* lines 54-63: take the shield, allocate the node with data v and next null
PushBegin(t, v, limit) ==
    /\ Alive
    /\ pc[t] = "idle"
    /\ Len(calls) < limit
    /\ nalloc < MaxNodes
    /\ nalloc' = nalloc + 1
    /\ data' = [data EXCEPT ![nalloc + 1] = v]
    /\ next' = [next EXCEPT ![nalloc + 1] = Null]
    /\ n' = [n EXCEPT ![t] = nalloc + 1]
    /\ shield' = [shield EXCEPT ![t] = TRUE]
    /\ cur' = [cur EXCEPT ![t] = Len(calls) + 1]
    /\ casOk' = [casOk EXCEPT ![t] = 0]
    /\ casFail' = [casFail EXCEPT ![t] = 0]
    /\ Invoke(t, "push", v, nalloc + 1)
    /\ pc' = [pc EXCEPT ![t] = "push_load"]
    /\ UNCHANGED <<head, h, nx, abs, interf, retired, ran, freed, fault>>

\* line 66: let head = self.head.load(Relaxed, &guard)
PushLoad(t) ==
    /\ Alive
    /\ pc[t] = "push_load"
    /\ h' = [h EXCEPT ![t] = head]
    /\ pc' = [pc EXCEPT ![t] = "push_store"]
    /\ Snapshot(t)
    /\ UNCHANGED <<casOk, casFail, head, data, next, nalloc, n, nx, shield, cur, calls,
                   abs, retired, ran, freed, fault>>

\* mutant: the new node is never linked to the snapshot
PushStoreSkipped(t) ==
    /\ Alive
    /\ pc[t] = "push_store"
    /\ pc' = [pc EXCEPT ![t] = "push_cas"]
    /\ UNCHANGED <<head, data, next, nalloc, n, h, nx, shield, cur, casOk, casFail,
                   calls, abs, interf, retired, ran, freed, fault>>

\* line 70: n.as_ref_unchecked().next.store(head, Relaxed).  With n null the
\* store goes through a null reference, which is undefined behaviour: the
\* process is killed by the fault, or the store is lost and the thread goes on.
PushStore(t) ==
    /\ Alive
    /\ pc[t] = "push_store"
    /\ IF n[t] # Null
       THEN /\ next' = [next EXCEPT ![n[t]] = h[t]]
            /\ pc' = [pc EXCEPT ![t] = "push_cas"]
            /\ UNCHANGED fault
       ELSE /\ \/ /\ fault' = "killed"
                  /\ UNCHANGED pc
               \/ /\ fault' = "ignored"
                  /\ pc' = [pc EXCEPT ![t] = "push_cas"]
            /\ UNCHANGED next
    /\ UNCHANGED <<casOk, casFail, head, data, nalloc, n, h, nx, shield, cur, calls,
                   abs, interf, retired, ran, freed>>

\* lines 74-80: compare_exchange(head, n); Ok => return (the guard is
\* dropped), Err(owned) => n = owned and loop
PushCAS(t) ==
    LET r == CompareExchange(head, h[t], n[t]) IN
    /\ Alive
    /\ pc[t] = "push_cas"
    /\ head' = r.cell
    /\ IF r.ok
       THEN /\ pc' = [pc EXCEPT ![t] = "idle"]
            /\ shield' = [shield EXCEPT ![t] = FALSE]
            /\ Done(t, NoneRes)
            /\ casOk' = [casOk EXCEPT ![t] = @ + 1]
            /\ n' = [n EXCEPT ![t] = Null]
            /\ h' = [h EXCEPT ![t] = Null]
            /\ abs' = <<calls[cur[t]].arg>> \o abs
            /\ Interfere(t)
            /\ UNCHANGED casFail
       ELSE /\ pc' = [pc EXCEPT ![t] = "push_load"]
            /\ n' = [n EXCEPT ![t] = RetryNode(n[t], r.val)]
            /\ casFail' = [casFail EXCEPT ![t] = @ + 1]
            /\ UNCHANGED <<shield, calls, casOk, h, abs, interf>>
    /\ UNCHANGED <<data, next, nalloc, nx, cur, retired, ran, freed, fault>>

\* ---- Stack::pop ---------------------------------------------------------
\* line 29: let guard = self.collector.thin_shield()
PopBegin(t, limit) ==
    /\ Alive
    /\ pc[t] = "idle"
    /\ Len(calls) < limit
    /\ shield' = [shield EXCEPT ![t] = TRUE]
    /\ cur' = [cur EXCEPT ![t] = Len(calls) + 1]
    /\ casOk' = [casOk EXCEPT ![t] = 0]
    /\ casFail' = [casFail EXCEPT ![t] = 0]
    /\ Invoke(t, "pop", 0, Null)
    /\ pc' = [pc EXCEPT ![t] = "pop_load"]
    /\ UNCHANGED <<head, data, next, nalloc, n, h, nx, abs, interf, retired, ran,
                   freed, fault>>

\* mutant: the early return on an empty stack keeps the shield
PopLoadKeepsShield(t) ==
    /\ Alive
    /\ pc[t] = "pop_load"
    /\ h' = [h EXCEPT ![t] = head]
    /\ IF head = Null
       THEN /\ pc' = [pc EXCEPT ![t] = "idle"]
            /\ Done(t, NoneRes)
       ELSE /\ pc' = [pc EXCEPT ![t] = "pop_next"]
            /\ UNCHANGED calls
    /\ Snapshot(t)
    /\ UNCHANGED <<casOk, casFail, head, data, next, nalloc, n, nx, shield, cur, abs,
                   retired, ran, freed, fault>>

\* lines 33-36: load head; null => return None (the guard is dropped)
PopLoad(t) ==
    /\ Alive
    /\ pc[t] = "pop_load"
    /\ h' = [h EXCEPT ![t] = head]
    /\ IF head = Null
       THEN /\ pc' = [pc EXCEPT ![t] = "idle"]
            /\ shield' = [shield EXCEPT ![t] = FALSE]
            /\ Done(t, NoneRes)
       ELSE /\ pc' = [pc EXCEPT ![t] = "pop_next"]
            /\ UNCHANGED <<shield, calls>>
    /\ Snapshot(t)
    /\ UNCHANGED <<casOk, casFail, head, data, next, nalloc, n, nx, cur, abs, retired,
                   ran, freed, fault>>

\* mutant: next is taken to be null instead of being read from the node
PopNextDropsRest(t) ==
    /\ Alive
    /\ pc[t] = "pop_next"
    /\ nx' = [nx EXCEPT ![t] = Null]
    /\ pc' = [pc EXCEPT ![t] = "pop_cas"]
    /\ UNCHANGED <<casOk, casFail, head, data, next, nalloc, n, h, shield, cur, calls,
                   abs, interf, retired, ran, freed, fault>>

\* line 38: let next = head.next.load(Relaxed, &guard)
PopNext(t) ==
    /\ Alive
    /\ pc[t] = "pop_next"
    /\ nx' = [nx EXCEPT ![t] = next[h[t]]]
    /\ pc' = [pc EXCEPT ![t] = "pop_cas"]
    /\ UNCHANGED <<casOk, casFail, head, data, next, nalloc, n, h, shield, cur, calls,
                   abs, interf, retired, ran, freed, fault>>

\* lines 41-44: compare_exchange(head, next); Err => loop
PopCAS(t) ==
    LET r == CompareExchange(head, h[t], nx[t]) IN
    /\ Alive
    /\ pc[t] = "pop_cas"
    /\ head' = r.cell
    /\ IF r.ok
       THEN /\ pc' = [pc EXCEPT ![t] = "pop_retire"]
            /\ calls' = [calls EXCEPT ![cur[t]].node = h[t]]
            /\ casOk' = [casOk EXCEPT ![t] = @ + 1]
            /\ abs' = IF abs = <<>> THEN abs ELSE Tail(abs)
            /\ Interfere(t)
            /\ UNCHANGED casFail
       ELSE /\ pc' = [pc EXCEPT ![t] = "pop_load"]
            /\ casFail' = [casFail EXCEPT ![t] = @ + 1]
            /\ UNCHANGED <<calls, casOk, abs, interf>>
    /\ UNCHANGED <<data, next, nalloc, n, h, nx, shield, cur, retired, ran,
                   freed, fault>>

\* mutant: the unlinked node is deallocated at once instead of being retired
PopRetireFreesNow(t) ==
    /\ Alive
    /\ pc[t] = "pop_retire"
    /\ freed' = freed \cup {h[t]}
    /\ pc' = [pc EXCEPT ![t] = "pop_read"]
    /\ UNCHANGED <<casOk, casFail, head, data, next, nalloc, n, h, nx, shield, cur, calls,
                   abs, interf, retired, ran, fault>>

\* line 46: guard.retire(move || drop(head))
PopRetire(t) ==
    /\ Alive
    /\ pc[t] = "pop_retire"
    /\ retired' = retired \cup
           {[node |-> h[t], call |-> cur[t], waits |-> ActiveShields]}
    /\ pc' = [pc EXCEPT ![t] = "pop_read"]
    /\ UNCHANGED <<casOk, casFail, head, data, next, nalloc, n, h, nx, shield, cur, calls,
                   abs, interf, ran, freed, fault>>

\* mutant: the return of Some keeps the shield
PopReadKeepsShield(t) ==
    /\ Alive
    /\ pc[t] = "pop_read"
    /\ Done(t, data[h[t]])
    /\ pc' = [pc EXCEPT ![t] = "idle"]
    /\ h' = [h EXCEPT ![t] = Null]
    /\ nx' = [nx EXCEPT ![t] = Null]
    /\ UNCHANGED <<casOk, casFail, head, data, next, nalloc, n, shield, cur, abs, interf,
                   retired, ran, freed, fault>>

\* line 48: return Some(ptr::read(&head.data)) (the guard is dropped)
PopRead(t) ==
    /\ Alive
    /\ pc[t] = "pop_read"
    /\ Done(t, data[h[t]])
    /\ pc' = [pc EXCEPT ![t] = "idle"]
    /\ shield' = [shield EXCEPT ![t] = FALSE]
    /\ h' = [h EXCEPT ![t] = Null]
    /\ nx' = [nx EXCEPT ![t] = Null]
    /\ UNCHANGED <<casOk, casFail, head, data, next, nalloc, n, cur, abs, interf,
                   retired, ran, freed, fault>>

\* ---- the collector ------------------------------------------------------
\* the collector runs a retired closure once no shield that was held at the
\* retirement is still held
Reclaim(r) ==
    /\ Alive
    /\ r \in retired
    /\ r.waits \cap ActiveShields = {}
    /\ retired' = retired \ {r}
    /\ ran' = ran \cup {r}
    /\ freed' = DropShared(freed, r.node)
    /\ UNCHANGED <<casOk, casFail, head, data, next, nalloc, pc, n, h, nx, shield, cur, calls,
                   abs, interf, fault>>

\* ---- specifications -----------------------------------------------------
Step(t, limit) ==
    \/ \E v \in Values : PushBegin(t, v, limit)
    \/ PushLoad(t)
    \/ PushStore(t)
    \/ PushCAS(t)
    \/ PopBegin(t, limit)
    \/ PopLoad(t)
    \/ PopNext(t)
    \/ PopCAS(t)
    \/ PopRetire(t)
    \/ PopRead(t)

\* any number of threads, calls interleaved at every step
Next ==
    \/ \E t \in Threads : Step(t, MaxCalls)
    \/ \E r \in retired : Reclaim(r)

Spec == Init /\ [][Next]_vars

\* one thread alone (the tests push_items and single_run)
NextSeq ==
    \/ Step(1, SeqCalls)
    \/ \E r \in retired : Reclaim(r)

SpecSeq == Init /\ [][NextSeq]_vars

\* a thread that is inside push or pop takes its next step
Work(t) ==
    \/ PushLoad(t)
    \/ PushStore(t)
    \/ PushCAS(t)
    \/ PopLoad(t)
    \/ PopNext(t)
    \/ PopCAS(t)
    \/ PopRetire(t)
    \/ PopRead(t)

NextFair ==
    \/ \E t \in Threads : Step(t, FairCalls)
    \/ \E r \in retired : Reclaim(r)

\* as long as some thread is inside a call, some such thread takes a step
SpecFair == Init /\ [][NextFair]_vars /\ WF_vars(\E t \in Threads : Work(t))

\* ---- observations on a state --------------------------------------------
RECURSIVE Chain(_, _)
\* the nodes met by following next from nd, at most k of them
Chain(nd, k) ==
    IF nd = Null \/ k = 0 THEN <<>> ELSE <<nd>> \o Chain(next[nd], k - 1)

\* the chain hanging from head; longer than nalloc iff it runs into a cycle
HeadChain == Chain(head, nalloc + 1)
ChainNodes == {HeadChain[i] : i \in DOMAIN HeadChain}
ChainData == [i \in DOMAIN HeadChain |-> data[HeadChain[i]]]

\* finite, null-terminated, no node met twice
WellFormed ==
    /\ Len(HeadChain) <= nalloc
    /\ Cardinality(ChainNodes) = Len(HeadChain)

RECURSIVE BagOfSeq(_)
BagOfSeq(sq) ==
    IF sq = <<>> THEN EmptyBag ELSE BagOfSeq(Tail(sq)) (+) SetToBag({Head(sq)})

Pushes == {i \in DOMAIN calls : calls[i].op = "push"}
Pops == {i \in DOMAIN calls : calls[i].op = "pop"}
AllDone == \A i \in DOMAIN calls : calls[i].done
InCall(t) == pc[t] # "idle"

RECURSIVE SeqOfSet(_)
\* the elements of a set of numbers in increasing order
SeqOfSet(S) ==
    IF S = {} THEN <<>>
    ELSE LET m == CHOOSE x \in S : \A y \in S : x <= y
         IN <<m>> \o SeqOfSet(S \ {m})

PushArgs == [i \in 1..Cardinality(Pushes) |-> calls[SeqOfSet(Pushes)[i]].arg]
PopResults == [i \in 1..Cardinality(Pops) |-> calls[SeqOfSet(Pops)[i]].res]

\* The formulas of C1, C2, C4, C6 and C8 to C10 are stated for the runs in
\* which no store has gone through a null pointer (NoFault), so that what
\* they show does not rest on what the build makes of undefined behaviour.

\* ---- C1 -------------------------------------------------------------------
\* every thread that pushed made the same number m of push calls
SamePushCount ==
    \E m \in 1..Len(calls) :
        \A t \in {calls[i].t : i \in Pushes} :
            Cardinality({i \in Pushes : calls[i].t = t}) = m

\* all calls have returned, the pops were consecutive calls, and each was
\* invoked after every push had returned
PushThenDrain ==
    /\ AllDone
    /\ SamePushCount
    /\ \A p \in Pops : Pushes \subseteq calls[p].pred
    /\ \A p, q \in Pops : p < q => p \in calls[q].pred

\* C1: when k threads have each pushed m times and all pushes have returned,
\* the first k*m consecutive pops return Some, every later one returns None,
\* and the values returned are, as a multiset, the values pushed.
Conservation ==
    (NoFault /\ PushThenDrain) =>
        /\ \A i \in DOMAIN PopResults :
               (i <= Cardinality(Pushes)) <=> (PopResults[i] # NoneRes)
        /\ Cardinality(Pops) >= Cardinality(Pushes) =>
               BagOfSeq(SubSeq(PopResults, 1, Cardinality(Pushes)))
                   = BagOfSeq(PushArgs)

\* ---- C2 -------------------------------------------------------------------
RECURSIVE Lin(_, _)
\* the calls of rem can be put in an order that respects precedence and in
\* which, started on the sequential stack st, every returned call gets the
\* result it returned.  A call that has not returned may be left out, or take
\* effect with whatever result the order gives it.
Lin(rem, st) ==
    \/ \A i \in rem : ~calls[i].done
    \/ \E i \in rem :
        /\ calls[i].pred \cap rem = {}
        /\ IF calls[i].op = "push"
           THEN Lin(rem \ {i}, <<calls[i].arg>> \o st)
           ELSE IF st = <<>>
                THEN /\ calls[i].done => calls[i].res = NoneRes
                     /\ Lin(rem \ {i}, st)
                ELSE /\ calls[i].done => calls[i].res = Head(st)
                     /\ Lin(rem \ {i}, Tail(st))

\* C2: the history of push and pop calls is linearizable with respect to a
\* sequential LIFO stack.
Linearizable == NoFault => Lin(DOMAIN calls, <<>>)

\* ---- C3 -------------------------------------------------------------------
\* the history is k pushes followed by pops only
PushesThenPops(k) ==
    /\ \A i \in 1..k : calls[i].op = "push"
    /\ \A i \in (k + 1)..Len(calls) : calls[i].op = "pop"

\* C3: after pushes v1..vn by one thread, alone, the j-th of the following n
\* pops returns Some(v(n-j+1)).
LIFOOrder ==
    \A k \in 0..Len(calls) :
        PushesThenPops(k) =>
            \A j \in 1..(Len(calls) - k) :
                (j <= k /\ calls[k + j].done) =>
                    calls[k + j].res = calls[k - j + 1].arg

\* three pushes, not all of one value, then three pops, all returned
LIFOWitness ==
    /\ Len(calls) = 6
    /\ PushesThenPops(3)
    /\ AllDone
    /\ calls[1].arg # calls[2].arg
    /\ calls[2].arg # calls[3].arg

\* ---- C4 -------------------------------------------------------------------
\* the pop calls whose CAS unlinked a node
Unlinkers == {i \in Pops : calls[i].node # Null}

\* C4: no two pop calls take their value from the same node, and a node whose
\* value a pop has returned is not reachable from head.
UniqueOwner ==
    NoFault =>
        /\ \A i, j \in Unlinkers : i # j => calls[i].node # calls[j].node
        /\ \A i \in Unlinkers : calls[i].done => calls[i].node \notin ChainNodes

\* ---- C5 -------------------------------------------------------------------
NumDone == Cardinality({i \in DOMAIN calls : calls[i].done})

\* a compare_exchange of a thread fails only if the compare_exchange of
\* another thread has succeeded since the thread loaded head
FailsOnlyOnInterference ==
    [][\A t \in Threads : casFail'[t] = casFail[t] + 1 => interf[t]]_vars

\* while some thread is inside a call (and the process lives), a call returns
Progress ==
    \A k \in 0..FairCalls :
        ((\E t \in Threads : InCall(t)) /\ Alive /\ NumDone = k)
            ~> (NumDone > k \/ ~Alive)

Drained(S) ==
    BagOfSeq([i \in 1..Cardinality(S \cap Pushes) |->
                 calls[SeqOfSet(S \cap Pushes)[i]].arg])
  = BagOfSeq([i \in 1..Cardinality(S \cap Unlinkers) |->
                 calls[SeqOfSet(S \cap Unlinkers)[i]].res])

\* pop call p began when all earlier calls had returned and the stack was
\* drained, and no push began before p returned
PopOnDrained(p) ==
    /\ calls[p].done
    /\ calls[p].pred = 1..(p - 1)
    /\ Drained(1..(p - 1))
    /\ \A q \in Pushes : q > p => p \in calls[q].pred

\* C6: once every value pushed has been popped and no push is in flight, head
\* is null and every further pop returns None.
EmptyOnDrain ==
    NoFault =>
        /\ (AllDone /\ Drained(DOMAIN calls)) => head = Null
        /\ \A p \in Pops : PopOnDrained(p) => calls[p].res = NoneRes

\* ---- C7 -------------------------------------------------------------------
\* C7: on a stack that was never pushed to, every pop returns None, head
\* stays null, no CAS is attempted, nothing is retired, and the shield of the
\* call is released when it returns.
NeverPushed ==
    Pushes = {} =>
        /\ head = Null
        /\ \A p \in Pops : calls[p].res = NoneRes /\ calls[p].node = Null
        /\ \A t \in Threads : casOk[t] = 0 /\ casFail[t] = 0
        /\ \A t \in Threads : pc[t] \in {"idle", "pop_load"}
        /\ \A t \in Threads : pc[t] = "idle" => ~shield[t]
        /\ retired = {} /\ ran = {} /\ nalloc = 0

\* three pops have returned and nothing was ever pushed
NeverPushedWitness ==
    /\ Pushes = {}
    /\ Len(calls) >= 3
    /\ AllDone

\* ---- C8 -------------------------------------------------------------------
\* the values whose push CAS has succeeded, less those a pop CAS has unlinked
LinkedValues ==
    BagOfSeq([i \in 1..Cardinality({q \in Pushes : calls[q].done}) |->
                 calls[SeqOfSet({q \in Pushes : calls[q].done})[i]].arg])
  (-) BagOfSeq([i \in 1..Cardinality(Unlinkers) |->
                 data[calls[SeqOfSet(Unlinkers)[i]].node]])

\* C8: wherever a thread stops for good inside push or pop, the chain from
\* head is a well-formed stack of exactly the values whose push CAS succeeded
\* and whose pop CAS has not.
AbandonSafe ==
    (NoFault /\ \E t \in Threads : InCall(t)) =>
        /\ WellFormed
        /\ BagOfSeq(ChainData) = LinkedValues

\* ---- C9 -------------------------------------------------------------------
\* C9: the chain from head is finite, null-terminated and without repetition,
\* and holds the values pushed and not yet popped, most recent first.
HeadChainInv ==
    NoFault =>
        /\ WellFormed
        /\ ChainData = abs

\* ---- C10 ------------------------------------------------------------------
\* C10: throughout a push(t) call the node offered to compare_exchange is the
\* node the call allocated, holding t, and each push call allocates one node.
PushReusesNode ==
    NoFault =>
        /\ \A t \in Threads :
               pc[t] \in {"push_load", "push_store", "push_cas"} =>
                   /\ n[t] = calls[cur[t]].node
                   /\ data[n[t]] = calls[cur[t]].arg
        /\ nalloc = Cardinality(Pushes)

\* ---- C11 ------------------------------------------------------------------
\* the nodes that the CAS of some pop has unlinked
UnlinkedNodes == {calls[i].node : i \in Unlinkers}

\* C11: a node that a pop CAS has unlinked and that is no longer reachable
\* from head never becomes reachable from head again.
ABASafe ==
    [][NoFault' => \A nd \in UnlinkedNodes \ ChainNodes : nd \notin ChainNodes']_vars

\* ---- C12 ------------------------------------------------------------------
\* thread t executes the store of line 70 through a non-null n
StoresNext(t) == pc[t] = "push_store" /\ pc'[t] = "push_cas" /\ n[t] # Null

\* the pointers that thread u holds in its locals
Held(u) == {n[u], h[u], nx[u]} \ {Null}

\* C12: head changes only in a compare_exchange step, and the store to a
\* node's next in push targets a node that is not reachable from head and
\* that no other thread holds a pointer to.
StoreDiscipline ==
    [][/\ head' # head =>
              \E t \in Threads : pc[t] \in {"push_cas", "pop_cas"} /\ pc'[t] # pc[t]
       /\ \A t \in Threads :
              StoresNext(t) =>
                  /\ n[t] \notin ChainNodes
                  /\ \A u \in Threads \ {t} : n[t] \notin Held(u)]_vars

\* ---- C13 ------------------------------------------------------------------
\* the compare_exchange of thread t's push succeeds (the call returns)
PushSucceeds(t) == pc[t] = "push_cas" /\ pc'[t] = "idle"

\* the compare_exchange of thread t's push fails
PushFails(t) == pc[t] = "push_cas" /\ pc'[t] = "push_load"

\* C13: the successful CAS of push(v) changes head from h to a node whose
\* data is v and whose next is h, so that the stack holds v followed by what
\* it held before; a failed CAS changes neither head nor any node.
PushEffect ==
    [][\A t \in Threads :
           /\ (PushSucceeds(t) /\ NoFault) =>
                  /\ data[head'] = calls[cur[t]].arg
                  /\ next[head'] = head
                  /\ ChainData' = <<calls[cur[t]].arg>> \o ChainData
           /\ PushFails(t) => (head' = head /\ next' = next /\ data' = data)]_vars

\* ---- C14 ------------------------------------------------------------------
\* thread t is about to read a field of the node h[t]: its next (line 38) or
\* its data (line 48)
ReadsNode(t) == pc[t] \in {"pop_next", "pop_read"}

Retirements == retired \cup ran

\* C15: a node unlinked by a pop is retired once, by the call whose CAS
\* unlinked it and under that call's shield; no node is retired twice, and no
\* node reachable from head is waiting in the retired set.
RetireDiscipline ==
    NoFault =>
        /\ \A r \in Retirements :
               /\ r.call \in Unlinkers
               /\ calls[r.call].node = r.node
               /\ r.call \in r.waits
        /\ \A i \in Unlinkers :
               (calls[i].done \/ pc[calls[i].t] = "pop_read") =>
                   \E r \in Retirements : r.call = i
        /\ \A r1, r2 \in Retirements : r1.node = r2.node => r1 = r2
        /\ \A r \in retired : r.node \notin ChainNodes

\* ---- C16 ------------------------------------------------------------------
\* C16: once the collector has run the closure of a retirement, the retired
\* node has been deallocated.
CallbackFrees == \A r \in ran : r.node \in freed

\* ---- C17 ------------------------------------------------------------------
\* C17: a thread holds a shield exactly while it is inside push or pop: the
\* shield is taken on entry, before the first load of head, and released on
\* every return, so that no shield is held when no thread is inside a call.
ShieldScoped ==
    /\ \A t \in Threads : shield[t] <=> InCall(t)
    /\ Cardinality(ActiveShields) = Cardinality({t \in Threads : InCall(t)})
    /\ (\A t \in Threads : ~InCall(t)) => ActiveShields = {}

\* a pop has returned None, a push has returned, and no thread is in a call
ShieldWitness ==
    /\ \A t \in Threads : ~InCall(t)
    /\ \E p \in Pops : calls[p].done /\ calls[p].res = NoneRes
    /\ \E q \in Pushes : calls[q].done

\* ---- C18 ------------------------------------------------------------------
\* C18: whenever push is about to store into n's next field (line 70), n is
\* not null.
PushNeverNull == \A t \in Threads : pc[t] = "push_store" => n[t] # Null

\* ---- C19 ------------------------------------------------------------------
RECURSIVE RefStack(_)
\* the reference: a list-based stack after the first k calls of the history
RefStack(k) ==
    IF k = 0 THEN <<>>
    ELSE LET st == RefStack(k - 1)
         IN IF calls[k].op = "push" THEN <<calls[k].arg>> \o st
            ELSE IF st = <<>> THEN st ELSE Tail(st)

\* what the reference returns for call k
RefResult(k) ==
    IF calls[k].op = "pop" /\ RefStack(k - 1) # <<>>
    THEN Head(RefStack(k - 1))
    ELSE NoneRes

\* the compare_exchange attempts the reference expects of call k
RefAttempts(k) ==
    IF calls[k].op = "pop" /\ RefStack(k - 1) = <<>> THEN 0 ELSE 1

\* C19: with one thread, whatever the order of its push and pop calls, every
\* call returns what a list-based stack returns, makes one compare_exchange
\* (none for a pop on the empty stack) and leaves the head chain equal to
\* the reference list.
SeqRefinement ==
    /\ \A k \in DOMAIN calls : calls[k].done => calls[k].res = RefResult(k)
    /\ \A t \in Threads :
           (~InCall(t) /\ cur[t] > 0) =>
               /\ casFail[t] = 0
               /\ casOk[t] = RefAttempts(cur[t])
    /\ (\A t \in Threads : ~InCall(t)) =>
           /\ WellFormed
           /\ ChainData = RefStack(Len(calls))

\* push, pop, pop on the empty stack, push, push, pop: all have returned
SeqRefinementWitness ==
    /\ Len(calls) = 6
    /\ AllDone
    /\ [i \in 1..6 |-> calls[i].op]
           = <<"push", "pop", "pop", "push", "push", "pop">>
    /\ calls[4].arg # calls[5].arg

====
